---- MODULE Spec2Model ----
(***************************************************************************)
(* Model of the findimpls package (Find and its helpers) and of the        *)
(* diagnostics plugin's Generate.                                          *)
(*                                                                         *)
(* A loaded program is a set of packages; each package carries its         *)
(* TypesInfo.Defs (identifier definitions, iterated in Go map order, that  *)
(* is in any order) and its syntax trees (function declarations).          *)
(* Types are terms [id, ptr]: a named type with ptr levels of pointer      *)
(* around it.                                                              *)
(***************************************************************************)
EXTENDS Integers, Sequences, FiniteSets, TLC

\* ------------------------------------------------------------------ bounds
MaxDefs == 3      \* optional definitions a program adds to the fixed ones
MaxMethods == 2   \* length of Query.Methods

\* ------------------------------------------------------- the type universe
NoPos == 0

Named(id) == [id |-> id, ptr |-> 0]
NewPointer(t) == [id |-> t.id, ptr |-> t.ptr + 1]
NoType == [id |-> "", ptr |-> 0]

Meth(n, s, p, r) == [name |-> n, sig |-> s, pos |-> p, recv |-> r]

\* What the type checker knows about each named type: whether its underlying
\* type is an interface, the interface's methods, the methods with value and
\* with pointer receiver (pos is the position of the body's scope, recv the
\* type the method is declared on) and the struct's fields.
TypeInfo(id) ==
  CASE id = "geo.Shape" ->
         [iface |-> TRUE, imethods |-> {[name |-> "Area", sig |-> "func() float64"]},
          vmethods |-> {}, pmethods |-> {}, fields |-> {}]
    [] id = "geo.describe.Shape" ->   \* type Shape interface{} inside func describe
         [iface |-> TRUE, imethods |-> {},
          vmethods |-> {}, pmethods |-> {}, fields |-> {}]
    [] id = "shapes.Circle" ->
         [iface |-> FALSE, imethods |-> {},
          vmethods |-> {Meth("Area", "func() float64", 11, "shapes.Circle")},
          pmethods |-> {}, fields |-> {"Radius"}]
    [] id = "shapes.Square" ->
         [iface |-> FALSE, imethods |-> {}, vmethods |-> {},
          pmethods |-> {Meth("Area", "func() float64", 12, "shapes.Square")},
          fields |-> {}]
    [] id = "shapes.Named" ->         \* interface { geo.Shape; Name() string }
         [iface |-> TRUE,
          imethods |-> {[name |-> "Area", sig |-> "func() float64"],
                        [name |-> "Name", sig |-> "func() string"]},
          vmethods |-> {}, pmethods |-> {}, fields |-> {}]
    [] id = "shapes.Blob" ->          \* Area with another signature
         [iface |-> FALSE, imethods |-> {},
          vmethods |-> {Meth("Area", "func() int", 13, "shapes.Blob")},
          pmethods |-> {}, fields |-> {}]
    [] id = "shapes.Wrap" ->          \* struct { dep.Base }: Area is promoted
         [iface |-> FALSE, imethods |-> {},
          vmethods |-> {Meth("Area", "func() float64", 31, "dep.Base")},
          pmethods |-> {}, fields |-> {"Base"}]
    [] id = "dep.Base" ->
         [iface |-> FALSE, imethods |-> {},
          vmethods |-> {Meth("Area", "func() float64", 31, "dep.Base")},
          pmethods |-> {}, fields |-> {}]
    [] OTHER ->                       \* int, and anything without methods
         [iface |-> FALSE, imethods |-> {}, vmethods |-> {}, pmethods |-> {},
          fields |-> {}]

Def(p, n, k, t) == [pkg |-> p, name |-> n, kind |-> k, typ |-> t]

\* Definitions every program has: the interface geo.Shape, the struct dep.Base,
\* and identifiers whose ast object is nil (a method name) or not a type.
FixedDefs ==
  { Def("geo", "Shape", "Typ", Named("geo.Shape")),
    Def("geo", "describe", "Fun", Named("func()")),
    Def("dep", "Base", "Typ", Named("dep.Base")),
    Def("dep", "Area", "nil", Named("func() float64")) }

\* Definitions a program may add: a type Shape declared inside geo's function
\* describe (its identifier is in Defs, with a type-kind object, like a
\* top-level one), struct and interface types of shapes, the alias declaration
\* type CirclePtr = *Circle (a type-kind identifier whose type is the pointer),
\* and a variable named Shape.
OptionalDefs ==
  { Def("geo", "Shape", "Typ", Named("geo.describe.Shape")),
    Def("shapes", "Circle", "Typ", Named("shapes.Circle")),
    Def("shapes", "Square", "Typ", Named("shapes.Square")),
    Def("shapes", "Named", "Typ", Named("shapes.Named")),
    Def("shapes", "Blob", "Typ", Named("shapes.Blob")),
    Def("shapes", "Wrap", "Typ", Named("shapes.Wrap")),
    Def("shapes", "CirclePtr", "Typ", NewPointer(Named("shapes.Circle"))),
    Def("shapes", "Shape", "Var", Named("int")) }

\* type CirclePtr = *Circle needs Circle.
WellFormed(ds) ==
  \A d \in ds : d.typ.ptr > 0 => \E e \in ds : e.typ = Named(d.typ.id)

Programs ==
  { FixedDefs \cup ds : ds \in { s \in SUBSET OptionalDefs :
                                   Cardinality(s) <= MaxDefs /\ WellFormed(s) } }

Imports(p) == IF p = "shapes" THEN {"geo", "dep"} ELSE {}

MethodNames == {"Area", "Radius"}

SeqsUpTo(S, n) == UNION { [1..k -> S] : k \in 0..n }

Range(s) == { s[i] : i \in DOMAIN s }

Queries ==
  [ pkgs : { <<"geo", "shapes">>, <<"shapes", "geo">>, <<"shapes">>, <<"geo">>,
             <<"geo", "shapes", "dep">> },
    ifacePkg : {"geo", "shapes"},
    ifaceName : {"Shape", "Circle", "CirclePtr"},
    methods : SeqsUpTo(MethodNames, MaxMethods) ]

LoadStatuses == {"ok", "pkgErrors", "driverError"}

VARIABLES
  program,     \* the source tree: the definitions of all its packages
  query,       \* the Query handed to Find
  loadStatus,  \* what packages.Load meets: nothing, a package error, a driver error
  pc,          \* where Find is
  loadedPkgs,  \* the packages Load returned
  ifaceType,   \* the type findInterface returned
  idx,         \* the index of the package Find's loop is at
  impls,       \* the result of findInterfaceImplementations for that package
  result,      \* Find's result map, so far
  ret,         \* what Find returned
  run,         \* which call of Find on this program this is
  firstRet,    \* what the first call returned
  loadedImpls,      \* Generate: what LoadDiagnosticHandlerImpls returns
  metadata,    \* Generate: its local map of packages and their implementations
  fs,          \* Generate: the file system, output path -> content
  verify,      \* Generate: the verify flag
  todo,        \* Generate: the packages the range loop has not visited
  gret,        \* Generate: what it returned
  call         \* Generate: which call this is

findVars == <<pc, loadedPkgs, ifaceType, idx, impls, result, ret>>
inVars == <<program, query, loadStatus>>
rerunVars == <<run, firstRet>>
genVars == <<loadedImpls, metadata, fs, verify, todo, gret, call>>
vars == <<inVars, findVars, rerunVars, genVars>>

\* --------------------------------------------------- go/types, as Find uses it
\* typ.Underlying() is an interface.
IsInterface(t) == t.ptr = 0 /\ TypeInfo(t.id).iface

\* The method set of a type: of a named interface its methods, of a named
\* struct its value-receiver methods, of a pointer to a named struct those and
\* the pointer-receiver ones, of any other pointer nothing.
MethodSet(t) ==
  LET info == TypeInfo(t.id) IN
  IF info.iface
  THEN IF t.ptr = 0
       THEN { Meth(m.name, m.sig, NoPos, t.id) : m \in info.imethods }
       ELSE {}
  ELSE IF t.ptr = 0 THEN info.vmethods
       ELSE IF t.ptr = 1 THEN info.vmethods \cup info.pmethods
       ELSE {}

\* Implements comparing the methods' names only.
Implements_NamesOnly(t, iface) ==
  \A m \in TypeInfo(iface.id).imethods : \E o \in MethodSet(t) : o.name = m.name

\* types.Implements(t, iface): every method of the interface is in the method
\* set of t, with the same signature.
Implements(t, iface) ==
  \A m \in TypeInfo(iface.id).imethods :
     \E o \in MethodSet(t) : o.name = m.name /\ o.sig = m.sig

NoObj == [kind |-> "nil", name |-> "", pos |-> NoPos]

\* types.LookupFieldOrMethod(t, true, pkg, name): the operand is addressable,
\* so a pointer-receiver method is found on the value form too; a pointer is
\* dereferenced once.
LookupFieldOrMethod(t, name) ==
  LET info == TypeInfo(t.id)
      ms == IF info.iface THEN MethodSet(t)
            ELSE IF t.ptr <= 1 THEN info.vmethods \cup info.pmethods ELSE {}
      flds == IF ~info.iface /\ t.ptr <= 1 THEN info.fields ELSE {}
  IN IF \E m \in ms : m.name = name
     THEN LET m == CHOOSE o \in ms : o.name = name
          IN [kind |-> "func", name |-> m.name, pos |-> m.pos]
     ELSE IF name \in flds THEN [kind |-> "var", name |-> name, pos |-> NoPos]
     ELSE NoObj

\* --------------------------------------------------------- packages.Package
DefsOf(pkg) == { d \in program : d.pkg = pkg }

FuncDecl(n, r, b) == [name |-> n, recv |-> r, body |-> b]
NoDecl == FuncDecl("", "", NoPos)

\* pkg.Syntax: the methods declared on the package's own types, and its plain
\* functions (recv = "" is a nil receiver list).
Syntax(pkg) ==
  { FuncDecl(m.name, m.recv, m.pos) :
      m \in UNION { { o \in TypeInfo(d.typ.id).vmethods \cup TypeInfo(d.typ.id).pmethods :
                        o.recv = d.typ.id } :
                    d \in { e \in DefsOf(pkg) : e.kind = "Typ" /\ e.typ.ptr = 0 } } }
  \cup (IF pkg = "geo" THEN {FuncDecl("describe", "", 5)} ELSE {})
  \cup (IF pkg = "shapes" THEN {FuncDecl("NewCircle", "", 14)} ELSE {})

\* The packages of the Program: the requested ones and what they import.
RECURSIVE Closure(_)
Closure(ps) ==
  LET more == ps \cup UNION { Imports(p) : p \in ps }
  IN IF more = ps THEN ps ELSE Closure(more)

ProgramPkgs == Closure(Range(query.pkgs))

\* packages.Load returns the packages the patterns name, not their imports. A
\* package that does not parse or type-check is returned too, with its Errors
\* set; only a failure of the driver makes Load itself fail.
Load(patterns) == patterns

PkgHasErrors(pkg) == loadStatus = "pkgErrors" /\ pkg = "shapes"

\* ------------------------------------------------------------------- errors
Err(k, p, t, m) == [kind |-> k, pkg |-> p, typ |-> t, method |-> m]
NoErr == Err("", "", NoType, "")

Running == [status |-> "running", hasResult |-> FALSE, result |-> <<>>, err |-> NoErr]
Failed(e) == [status |-> "error", hasResult |-> FALSE, result |-> <<>>, err |-> e]
Panicked == [status |-> "panic", hasResult |-> FALSE, result |-> <<>>, err |-> NoErr]
Returned(r) == [status |-> "ok", hasResult |-> TRUE, result |-> r, err |-> NoErr]

\* ------------------------------------------------------------ findInterface
\* findInterfaceIdents without the test of the identifier's kind.
findInterfaceIdents_AnyKind(pkg, ifaceName) ==
  { d \in DefsOf(pkg) : d.kind # "nil" /\ d.name = ifaceName }

\* The identifiers the range over TypesInfo.Defs may stop at: a type-kind
\* identifier with the interface's name. The map is iterated in any order and
\* the loop breaks at the first one it meets.
findInterfaceIdents(pkg, ifaceName) ==
  { d \in DefsOf(pkg) : d.kind = "Typ" /\ d.name = ifaceName }

\* The outcomes of findInterface: one per identifier the loop may stop at.
findInterface(loaded, ifaceImportPath, ifaceName) ==
  IF ifaceImportPath \notin Range(loaded)
  THEN { [err |-> Err("InterfacePackageNotFound", ifaceImportPath, NoType, ""),
          typ |-> NoType, panic |-> FALSE] }
  ELSE LET found == findInterfaceIdents(ifaceImportPath, ifaceName)
       IN IF found = {}
          THEN { [err |-> Err("InterfaceTypeNotFound", ifaceImportPath, NoType, ifaceName),
                  typ |-> NoType, panic |-> FALSE] }
          ELSE { [err |-> NoErr, typ |-> d.typ, panic |-> d.typ.ptr # 0] : d \in found }

\* ------------------------------------------ findInterfaceImplementations
\* One iteration of the loop over Defs: what it appends to results.
ScanDef(iface, d) ==
  IF d.kind = "Typ"
  THEN IF IsInterface(d.typ) THEN <<>>
       ELSE IF Implements(d.typ, iface) THEN <<d.typ>>
       ELSE IF Implements(NewPointer(d.typ), iface) THEN <<NewPointer(d.typ)>>
       ELSE <<>>
  ELSE <<>>

RECURSIVE ScanDefs(_, _)
ScanDefs(iface, order) ==
  IF order = <<>> THEN <<>>
  ELSE ScanDef(iface, Head(order)) \o ScanDefs(iface, Tail(order))

Orders(S) == { s \in [1..Cardinality(S) -> S] : \A i, j \in DOMAIN s : s[i] = s[j] => i = j }

\* The slices findInterfaceImplementations may return: one per iteration order
\* of the package's Defs.
findInterfaceImplementations(iface, pkg) ==
  { ScanDefs(iface, o) : o \in Orders(DefsOf(pkg)) }

\* ------------------------------------------------- loadPkgTypeMethodASTs
pkgMethodBodyDecls(pkg) ==
  LET ms == { f \in Syntax(pkg) : f.recv # "" }
  IN [ p \in { f.body : f \in ms } |-> CHOOSE f \in ms : f.body = p ]

\* findMethodDeclAST without the check that the position is in the map.
findMethodDeclAST_Unchecked(impl, pkg, methodName, pkgMethodDecls) ==
  LET methodObj == LookupFieldOrMethod(impl, methodName) IN
  IF methodObj.kind = "nil"
  THEN [err |-> Err("MethodNotFound", pkg, impl, methodName), decl |-> NoDecl]
  ELSE IF methodObj.kind # "func"
  THEN [err |-> Err("NotAFunction", pkg, impl, "<nil>"), decl |-> NoDecl]
  ELSE IF methodObj.pos \notin DOMAIN pkgMethodDecls
  THEN [err |-> NoErr, decl |-> NoDecl]
  ELSE [err |-> NoErr, decl |-> pkgMethodDecls[methodObj.pos]]

findMethodDeclAST(impl, pkg, methodName, pkgMethodDecls) ==
  LET methodObj == LookupFieldOrMethod(impl, methodName) IN
  IF methodObj.kind = "nil"
  THEN [err |-> Err("MethodNotFound", pkg, impl, methodName), decl |-> NoDecl]
  ELSE IF methodObj.kind # "func"
  THEN \* the message formats the nil *types.Func, not the name
       [err |-> Err("NotAFunction", pkg, impl, "<nil>"), decl |-> NoDecl]
  ELSE IF methodObj.pos \notin DOMAIN pkgMethodDecls
  THEN [err |-> Err("DeclarationNotFound", pkg, impl, methodObj.name), decl |-> NoDecl]
  ELSE [err |-> NoErr, decl |-> pkgMethodDecls[methodObj.pos]]

loadPkgTypeMethodASTs(is, pkg, methodNames) ==
  LET methodDecls == pkgMethodBodyDecls(pkg)
      look(i, j) == findMethodDeclAST(is[i], pkg, methodNames[j], methodDecls)
      bad == { b \in (DOMAIN is) \X (DOMAIN methodNames) : look(b[1], b[2]).err # NoErr }
      fst == CHOOSE b \in bad :
                 \A c \in bad : b[1] < c[1] \/ (b[1] = c[1] /\ b[2] <= c[2])
  IN IF bad # {}
     THEN [err |-> look(fst[1], fst[2]).err, res |-> <<>>]
     ELSE [err |-> NoErr,
           res |-> [ t \in Range(is) |->
                      [ m \in Range(methodNames) |->
                          findMethodDeclAST(t, pkg, m, methodDecls).decl ] ]]

\* A store that leaves out a package without implementations.
StoreResult_SkipEmpty(res, pkg, pkgResult) ==
  IF DOMAIN pkgResult = {} THEN res
  ELSE [ p \in (DOMAIN res) \cup {pkg} |-> IF p = pkg THEN pkgResult ELSE res[p] ]

\* result[pkg] = pkgResult
StoreResult(res, pkg, pkgResult) ==
  [ p \in (DOMAIN res) \cup {pkg} |-> IF p = pkg THEN pkgResult ELSE res[p] ]

\* --------------------------------------------------------------------- Find
FindStart ==
  /\ pc = "load"
  /\ loadedPkgs = <<>>
  /\ ifaceType = NoType
  /\ idx = 1
  /\ impls = <<>>
  /\ result = <<>>
  /\ ret = Running

GenIdle ==
  /\ loadedImpls = <<>>
  /\ metadata = <<>>
  /\ fs = <<>>
  /\ verify = FALSE
  /\ todo = {}
  /\ gret = "idle"
  /\ call = 0

Init ==
  /\ program \in Programs
  /\ query \in Queries
  /\ loadStatus \in LoadStatuses
  /\ FindStart
  /\ run = 1
  /\ firstRet = Running
  /\ GenIdle

\* packages.Load and the check of its error.
LoadStep ==
  /\ pc = "load"
  /\ IF loadStatus = "driverError"
     THEN /\ ret' = Failed(Err("LoadError", "", NoType, ""))
          /\ pc' = "done"
          /\ UNCHANGED loadedPkgs
     ELSE /\ loadedPkgs' = Load(query.pkgs)
          /\ pc' = "findInterface"
          /\ UNCHANGED ret
  /\ UNCHANGED <<inVars, rerunVars, genVars, ifaceType, idx, impls, result>>

\* The call of findInterface and the check of its error.
FindInterfaceStep ==
  /\ pc = "findInterface"
  /\ \E r \in findInterface(loadedPkgs, query.ifacePkg, query.ifaceName) :
       IF r.panic
       THEN ret' = Panicked /\ pc' = "done" /\ UNCHANGED ifaceType
       ELSE IF r.err # NoErr
       THEN ret' = Failed(r.err) /\ pc' = "done" /\ UNCHANGED ifaceType
       ELSE ifaceType' = r.typ /\ pc' = "scan" /\ UNCHANGED ret
  /\ UNCHANGED <<inVars, rerunVars, genVars, loadedPkgs, idx, impls, result>>

\* The loop body's first call; the type assertion on the interface's
\* underlying type panics when the located type is no interface.
ScanStep ==
  /\ pc = "scan"
  /\ IF ~IsInterface(ifaceType)
     THEN ret' = Panicked /\ pc' = "done" /\ UNCHANGED impls
     ELSE /\ \E s \in findInterfaceImplementations(ifaceType, loadedPkgs[idx]) :
               impls' = s
          /\ pc' = "methods"
          /\ UNCHANGED ret
  /\ UNCHANGED <<inVars, rerunVars, genVars, loadedPkgs, ifaceType, idx, result>>

\* The loop body's second call, the store into result, and the return after
\* the last package.
MethodsStep ==
  /\ pc = "methods"
  /\ LET pkg == loadedPkgs[idx]
         r == loadPkgTypeMethodASTs(impls, pkg, query.methods)
     IN IF r.err # NoErr
        THEN ret' = Failed(r.err) /\ pc' = "done" /\ UNCHANGED <<result, idx>>
        ELSE /\ result' = StoreResult(result, pkg, r.res)
             /\ IF idx = Len(loadedPkgs)
                THEN ret' = Returned(result') /\ pc' = "done" /\ UNCHANGED idx
                ELSE idx' = idx + 1 /\ pc' = "scan" /\ UNCHANGED ret
  /\ UNCHANGED <<inVars, rerunVars, genVars, loadedPkgs, ifaceType, impls>>

Next == LoadStep \/ FindInterfaceStep \/ ScanStep \/ MethodsStep

Spec == Init /\ [][Next]_vars

\* A second call of Find on the same program and query.
Rerun ==
  /\ pc = "done"
  /\ run = 1
  /\ run' = 2
  /\ firstRet' = ret
  /\ pc' = "load"
  /\ loadedPkgs' = <<>>
  /\ ifaceType' = NoType
  /\ idx' = 1
  /\ impls' = <<>>
  /\ result' = <<>>
  /\ ret' = Running
  /\ UNCHANGED <<inVars, genVars>>

RerunNext == LoadStep \/ FindInterfaceStep \/ ScanStep \/ MethodsStep \/ Rerun

RerunSpec == Init /\ [][RerunNext]_vars

\* ----------------------------------------------------------------- Generate
MaxGenPkgs == 2   \* packages in the metadata map

DiagnosticsJSONPath == "diagnostics.json"

\* A path is <<directory, base name>>.
Dir(path) == path[1]
Join(dir, name) == <<dir, name>>

Dirs == {"a", "b"}
OutputPaths == { Join(d, DiagnosticsJSONPath) : d \in Dirs }

Absent == [exists |-> FALSE, data |-> <<>>]
File(d) == [exists |-> TRUE, data |-> d]

\* The files of a package: GoFiles and OtherFiles.
Layouts ==
  { [goFiles |-> << <<"a", "x.go">> >>, otherFiles |-> << <<"b", "data.txt">> >>],
    [goFiles |-> << <<"b", "y.go">>, <<"a", "z.go">> >>, otherFiles |-> <<>>],
    [goFiles |-> <<>>, otherFiles |-> << <<"b", "data.txt">> >>],
    [goFiles |-> <<>>, otherFiles |-> <<>>] }

\* The implementations of a package, each by its Type (a number, ordered as
\* the type names are).
ImplLists == { <<>>, <<1>>, <<2, 1>> }

GenPackages == [ goFiles : { l.goFiles : l \in Layouts },
                 otherFiles : { l.otherFiles : l \in Layouts },
                 impls : ImplLists ]

Metadatas ==
  UNION { [1..n -> { g \in GenPackages :
                       \E l \in Layouts : l.goFiles = g.goFiles /\ l.otherFiles = g.otherFiles }] :
          n \in 1..MaxGenPkgs }

\* What a diagnostics file may hold before Generate runs; 0 is the final newline.
DiskContents == { Absent, File(<<1, 0>>), File(<<1, 2, 0>>), File(<<2, 1, 0>>), File(<<1, 2>>) }

getPackageDiagnosticsOutputPath(pkg) ==
  IF Len(pkg.goFiles) > 0
  THEN [err |-> FALSE, path |-> Join(Dir(pkg.goFiles[1]), DiagnosticsJSONPath)]
  ELSE IF Len(pkg.otherFiles) > 0
  THEN [err |-> FALSE, path |-> Join(Dir(pkg.otherFiles[1]), DiagnosticsJSONPath)]
  ELSE [err |-> TRUE, path |-> <<"", "">>]

RECURSIVE SortByType(_)
SortByType(is) ==
  IF is = <<>> THEN <<>>
  ELSE LET rest == SortByType(Tail(is))
           lo == SelectSeq(rest, LAMBDA x : x < Head(is))
           hi == SelectSeq(rest, LAMBDA x : ~(x < Head(is)))
       IN lo \o <<Head(is)>> \o hi

\* The sorted implementations, marshalled, with a newline appended when the
\* last byte is none.
renderPackageDiagnosticsJSON(is) ==
  LET metadataJSON == SortByType(is)
  IN IF metadataJSON = <<>> \/ metadataJSON[Len(metadataJSON)] # 0
     THEN Append(metadataJSON, 0)
     ELSE metadataJSON

\* What one iteration of Generate's loop leaves: the file system, the error it
\* returns ("" is none, and the loop goes on) and the package's slice of
\* implementations, which renderPackageDiagnosticsJSON sorts in place.
Iter(files, err, is) == [files |-> files, err |-> err, impls |-> is]

\* The body of Generate's loop without the verify checks: it removes and
\* writes whatever the flag says.
GenerateBody_AlwaysRepair(pkg, v, files, ioOK) ==
  LET is == pkg.impls
      out == getPackageDiagnosticsOutputPath(pkg)
  IN IF out.err
     THEN Iter(files, IF Len(is) > 0 THEN "noFiles" ELSE "", is)
     ELSE IF Len(is) = 0
     THEN IF files[out.path].exists
          THEN IF ioOK THEN Iter([files EXCEPT ![out.path] = Absent], "", is)
               ELSE Iter(files, "remove", is)
          ELSE Iter(files, "", is)
     ELSE LET metadataJSON == renderPackageDiagnosticsJSON(is)
              sorted == SortByType(is)
          IN IF ioOK
             THEN Iter([files EXCEPT ![out.path] = File(metadataJSON)], "", sorted)
             ELSE Iter(files, "write", sorted)

\* The body of Generate's loop for one package. ioOK is whether the one file
\* operation of the iteration succeeds. The rendering comes before the verify
\* checks, so the slice is sorted in verify mode too.
GenerateBody(pkg, v, files, ioOK) ==
  LET is == pkg.impls
      out == getPackageDiagnosticsOutputPath(pkg)
  IN IF out.err
     THEN Iter(files, IF Len(is) > 0 THEN "noFiles" ELSE "", is)
     ELSE IF Len(is) = 0
     THEN IF files[out.path].exists
          THEN IF v THEN Iter(files, "shouldNotExist", is)
               ELSE IF ioOK THEN Iter([files EXCEPT ![out.path] = Absent], "", is)
               ELSE Iter(files, "remove", is)
          ELSE Iter(files, "", is)
     ELSE LET metadataJSON == renderPackageDiagnosticsJSON(is)
              sorted == SortByType(is)
          IN IF v
             THEN IF ~files[out.path].exists THEN Iter(files, "missing", sorted)
                  ELSE IF ~ioOK THEN Iter(files, "read", sorted)
                  ELSE IF metadataJSON # files[out.path].data
                  THEN Iter(files, "differs", sorted)
                  ELSE Iter(files, "", sorted)
             ELSE IF ioOK
                  THEN Iter([files EXCEPT ![out.path] = File(metadataJSON)], "", sorted)
                  ELSE Iter(files, "write", sorted)

FindIdle ==
  /\ program = {}
  /\ query = [pkgs |-> <<>>, ifacePkg |-> "", ifaceName |-> "", methods |-> <<>>]
  /\ loadStatus = "ok"
  /\ pc = "idle"
  /\ loadedPkgs = <<>>
  /\ ifaceType = NoType
  /\ idx = 1
  /\ impls = <<>>
  /\ result = <<>>
  /\ ret = Running
  /\ run = 1
  /\ firstRet = Running

GenInit ==
  /\ FindIdle
  /\ loadedImpls \in Metadatas
  /\ metadata = <<>>
  /\ fs \in [OutputPaths -> DiskContents]
  /\ verify \in BOOLEAN
  /\ todo = {}
  /\ gret = "idle"
  /\ call = 1

\* LoadDiagnosticHandlerImpls and the check of its error.
GenLoadStep ==
  /\ gret = "idle"
  /\ call > 0
  /\ \E ok \in BOOLEAN :
       IF ok THEN gret' = "running" /\ metadata' = loadedImpls /\ todo' = DOMAIN loadedImpls
       ELSE gret' = "load" /\ UNCHANGED <<metadata, todo>>
  /\ UNCHANGED <<inVars, findVars, rerunVars, loadedImpls, fs, verify, call>>

\* One iteration of the range over the metadata map, in any order, and the
\* return of nil after the last one.
GenStep ==
  /\ gret = "running"
  /\ \E pkg \in todo : \E ioOK \in BOOLEAN :
       LET r == GenerateBody(metadata[pkg], verify, fs, ioOK)
       IN /\ fs' = r.files
          /\ metadata' = [metadata EXCEPT ![pkg].impls = r.impls]
          /\ IF r.err # "" THEN gret' = r.err /\ UNCHANGED todo
             ELSE /\ todo' = todo \ {pkg}
                  /\ gret' = IF todo' = {} THEN "nil" ELSE "running"
  /\ UNCHANGED <<inVars, findVars, rerunVars, loadedImpls, verify, call>>

\* Generate with verify=true, called after a generation that returned nil.
GenVerifyAfter ==
  /\ call = 1
  /\ ~verify
  /\ gret = "nil"
  /\ call' = 2
  /\ verify' = TRUE
  /\ gret' = "idle"
  /\ todo' = {}
  /\ metadata' = <<>>
  /\ UNCHANGED <<inVars, findVars, rerunVars, loadedImpls, fs>>

GenNext == GenLoadStep \/ GenStep \/ GenVerifyAfter

GenSpec == GenInit /\ [][GenNext]_vars

\* ================================================================== claims
\* The type definitions of a package (an alias declaration is none).
TypeDefs(pkg) == { d \in DefsOf(pkg) : d.kind = "Typ" /\ d.typ.ptr = 0 }

\* Every method of the interface is among ms, with the same signature.
HasAll(ms, iface) ==
  \A m \in TypeInfo(iface.id).imethods :
     \E o \in ms : o.name = m.name /\ o.sig = m.sig

ValueConforms(id, iface) == HasAll(TypeInfo(id).vmethods, iface)
SomeFormConforms(id, iface) ==
  HasAll(TypeInfo(id).vmethods \cup TypeInfo(id).pmethods, iface)

\* The packages whose recorded types a state shows, and the types.
ShownPkgs ==
  IF pc = "methods" THEN {loadedPkgs[idx]}
  ELSE IF ret.status = "ok" THEN DOMAIN ret.result ELSE {}
Shown(p) == IF pc = "methods" THEN Range(impls) ELSE DOMAIN ret.result[p]

\* C1: for every package scanned, a type definition whose underlying type is
\* not an interface is recorded (as T or as *T) iff every method of the
\* interface is, with its signature, on T or on *T; nothing whose underlying
\* type is an interface is recorded, and nothing of which neither form
\* conforms.
C1_ImplementersExact ==
  \A p \in ShownPkgs :
     /\ \A d \in TypeDefs(p) :
          ~TypeInfo(d.typ.id).iface =>
            ((d.typ \in Shown(p) \/ NewPointer(d.typ) \in Shown(p))
               <=> SomeFormConforms(d.typ.id, ifaceType))
     /\ \A t \in Shown(p) :
          ~TypeInfo(t.id).iface /\ SomeFormConforms(t.id, ifaceType)

\* C1 witness: Find returned a result in which one type definition of a package
\* is recorded in pointer form and another, with a method of the interface's
\* name but another signature, is absent, next to an interface definition.
C1_Witness ==
  /\ loadStatus = "ok"
  /\ ret.status = "ok"
  /\ \E p \in DOMAIN ret.result :
       /\ \E t \in DOMAIN ret.result[p] : t.ptr = 1
       /\ \E d \in TypeDefs(p) :
            /\ ~TypeInfo(d.typ.id).iface
            /\ TypeInfo(d.typ.id).vmethods # {}
            /\ d.typ \notin DOMAIN ret.result[p]
            /\ NewPointer(d.typ) \notin DOMAIN ret.result[p]

\* C2: a type definition T is recorded in at most one form: when the value
\* form conforms the result holds T once and never *T; *T is recorded only
\* when T does not conform and *T does.
C2_OneForm ==
  \A p \in ShownPkgs : \A d \in TypeDefs(p) :
     ~TypeInfo(d.typ.id).iface =>
       /\ ValueConforms(d.typ.id, ifaceType) =>
            (d.typ \in Shown(p) /\ NewPointer(d.typ) \notin Shown(p))
       /\ NewPointer(d.typ) \in Shown(p) =>
            (~ValueConforms(d.typ.id, ifaceType) /\ SomeFormConforms(d.typ.id, ifaceType))

\* C3 as stated: a result has an entry for every package of the Program, the
\* requested packages and their transitive dependencies.
C3_EveryProgramPackage ==
  (loadStatus = "ok" /\ ret.status = "ok") => \A p \in ProgramPkgs : p \in DOMAIN ret.result

\* C3 amended: a result has an entry for exactly the packages Load returned
\* (the requested ones), an empty map for a package without implementers.
C3_EveryLoadedPackage ==
  ret.status = "ok" =>
    /\ ret.hasResult
    /\ DOMAIN ret.result = Range(loadedPkgs)
    /\ \A p \in Range(loadedPkgs) :
         (\A s \in findInterfaceImplementations(ifaceType, p) : s = <<>>)
           => ret.result[p] = <<>>

\* C3 witness: a result with an empty entry for one package and a non-empty
\* one for another.
C3_Witness ==
  /\ loadStatus = "ok"
  /\ ret.status = "ok"
  /\ \E p, q \in DOMAIN ret.result :
       ret.result[p] = <<>> /\ DOMAIN ret.result[q] # {}

\* The types a scan of package p may record, the lookups that fail, and the
\* requested names that resolve to no method on a recorded type.
Recorded(p) == UNION { Range(s) : s \in findInterfaceImplementations(ifaceType, p) }

Lookups ==
  { l \in [pkg : Range(loadedPkgs), typ : UNION { Recorded(p) : p \in Range(loadedPkgs) },
           method : Range(query.methods)] : l.typ \in Recorded(l.pkg) }

Unresolved == { l \in Lookups : LookupFieldOrMethod(l.typ, l.method).kind # "func" }

Undeclared ==
  { l \in Lookups :
      LET o == LookupFieldOrMethod(l.typ, l.method)
      IN o.kind = "func" /\ ~\E f \in Syntax(l.pkg) : f.recv # "" /\ f.body = o.pos }

\* Find is over and had located an interface.
PastLocation == pc = "done" /\ IsInterface(ifaceType)

\* C4: when a requested name resolves to no method on a recorded type, Find
\* returns an error and a nil result, the error naming the type and the name
\* of a lookup that fails; when no type is recorded the names cause no error.
C4_MethodNotFound ==
  PastLocation =>
    /\ Unresolved # {} =>
         /\ ret.status = "error"
         /\ ~ret.hasResult
         /\ \E l \in Unresolved \cup Undeclared :
              ret.err.typ = l.typ /\ ret.err.method = l.method
    /\ (\A p \in Range(loadedPkgs) : Recorded(p) = {}) => ret.status = "ok"

LocationDone == loadStatus # "driverError" /\ pc \notin {"load", "findInterface"}

InterfaceNotFound ==
  /\ ret.status = "error"
  /\ ret.err.kind \in {"InterfacePackageNotFound", "InterfaceTypeNotFound"}

NothingScanned == impls = <<>> /\ result = <<>> /\ idx = 1

TypeIdents(pkg, name) == { d \in DefsOf(pkg) : d.kind = "Typ" /\ d.name = name }

\* C5 as stated (for the interface name Shape, when nothing fails to load):
\* location fails, before any scan, exactly when the owning package is not in
\* the Program or has no type of that name; otherwise it yields the type.
C5_AbsentFromProgram ==
  (LocationDone /\ loadStatus = "ok" /\ query.ifaceName = "Shape") =>
    /\ InterfaceNotFound <=>
         (\/ query.ifacePkg \notin ProgramPkgs
          \/ TypeIdents(query.ifacePkg, query.ifaceName) = {})
    /\ InterfaceNotFound => NothingScanned
    /\ ~InterfaceNotFound =>
         \E d \in TypeIdents(query.ifacePkg, query.ifaceName) : ifaceType = d.typ

\* C5 amended: location fails, before any scan, exactly when the owning package
\* is not among the packages Load returned or has no type-kind identifier of
\* that name; otherwise it yields the type of such an identifier, or panics
\* when that type is not a named type.
C5_AbsentFromLoaded ==
  LocationDone =>
    /\ InterfaceNotFound <=>
         (\/ query.ifacePkg \notin Range(loadedPkgs)
          \/ TypeIdents(query.ifacePkg, query.ifaceName) = {})
    /\ InterfaceNotFound => NothingScanned
    /\ ~InterfaceNotFound =>
         \E d \in TypeIdents(query.ifacePkg, query.ifaceName) :
            IF d.typ.ptr # 0
            THEN ret.status = "panic" /\ ifaceType = NoType
            ELSE ifaceType = d.typ

\* C5 witness: location failed for an owning package that the Program holds as
\* a dependency and that defines the type.
C5_Witness ==
  /\ loadStatus = "ok"
  /\ InterfaceNotFound
  /\ query.ifacePkg \in ProgramPkgs
  /\ TypeIdents(query.ifacePkg, query.ifaceName) # {}

\* C6: when a requested package carries an error, Find stops at the load with
\* a LoadError naming it.
C6_LoadErrorStops ==
  (pc # "load" /\ \E p \in Range(query.pkgs) : PkgHasErrors(p)) =>
    /\ pc = "done"
    /\ ret.status = "error"
    /\ ret.err.kind = "LoadError"
    /\ PkgHasErrors(ret.err.pkg)

\* C8: in a result, the declaration stored for a type and a name that resolves
\* to a method is the declaration with a receiver, in the package's syntax,
\* whose body is at the method's scope position; when the package has no such
\* declaration Find returns an error (DeclarationNotFound, unless another
\* lookup fails too) and no result.
C8_DeclarationAtScopePos ==
  PastLocation =>
    /\ ret.status = "ok" =>
         \A p \in DOMAIN ret.result : \A t \in DOMAIN ret.result[p] :
            /\ DOMAIN ret.result[p][t] = Range(query.methods)
            /\ \A m \in DOMAIN ret.result[p][t] :
                 LET o == LookupFieldOrMethod(t, m)
                     f == ret.result[p][t][m]
                 IN o.kind = "func" =>
                      f \in Syntax(p) /\ f.recv # "" /\ f.body = o.pos
    /\ Undeclared # {} =>
         /\ ret.status = "error"
         /\ ~ret.hasResult
         /\ ret.err.kind = "DeclarationNotFound" \/ Unresolved # {}

\* C8 witness: a result that stores a declaration for a type in pointer form.
C8_Witness ==
  /\ loadStatus = "ok"
  /\ ret.status = "ok"
  /\ \E p \in DOMAIN ret.result : \E t \in DOMAIN ret.result[p] :
       /\ t.ptr = 1
       /\ \E m \in DOMAIN ret.result[p][t] : ret.result[p][t][m].body # NoPos

\* C7: two calls of Find on the same program and query end alike: both return
\* a result, the same one, or both an error, or both panic.
C7_SameOutcome ==
  (run = 2 /\ pc = "done" /\ loadStatus = "ok") =>
    /\ ret.status = firstRet.status
    /\ ret.status = "ok" => ret.result = firstRet.result

\* The file system agrees with the metadata: a package with implementations
\* has its file, with the rendered JSON; a package without, and with an output
\* directory, has none.
Consistent(files) ==
  \A p \in DOMAIN loadedImpls :
     LET out == getPackageDiagnosticsOutputPath(loadedImpls[p])
     IN ~out.err =>
          IF Len(loadedImpls[p].impls) = 0
          THEN ~files[out.path].exists
          ELSE files[out.path] = File(renderPackageDiagnosticsJSON(loadedImpls[p].impls))

\* C9: with verify set no step of Generate changes the file system, and
\* Generate returns nil only when no file is stale, missing or different.
C9_VerifyWritesNothing ==
  [][verify => (fs' = fs /\ (gret' = "nil" => Consistent(fs)))]_vars

\* C9 witness: a verify run ended in an error over a file that differs from
\* the rendered JSON, and the file is still there.
C9_Witness ==
  /\ verify
  /\ call = 1
  /\ gret = "differs"
  /\ \E p \in OutputPaths : fs[p] = File(<<2, 1, 0>>)

\* C10: after a generation that returned nil the file system agrees with the
\* metadata, and a verify run on it returns nil (unless it cannot load or read).
C10_VerifyAfterGenerate ==
  /\ (call = 1 /\ ~verify /\ gret = "nil") => Consistent(fs)
  /\ (call = 2 /\ gret \notin {"idle", "running", "load", "read"}) => gret = "nil"

====
